---- MODULE Spec2Model ----
(***************************************************************************)
(* Model of UsersController.deleteUser and UsersController.changeRole       *)
(* (packages/cli/src/controllers/users.controller.ts).                      *)
(*                                                                          *)
(* The database is the record db (the committed state).  A transaction      *)
(* opened with getManager().transaction(...) works on a private copy,       *)
(* tx.db, that replaces db when the callback returns and is dropped when    *)
(* the callback throws.  Requests are served by the slots of Reqs, whose    *)
(* steps interleave at every await of the handlers.  Under Spec the store   *)
(* serialises transactions; SpecReadCommitted adds the behaviours of a      *)
(* store that lets a transaction commit beside an open one.                 *)
(***************************************************************************)
EXTENDS Integers, Sequences, FiniteSets, TLC

\* ------------------------------------------------------------------ bounds
MaxCalls == 2

\* ------------------------------------------------------------- the domain
Reqs == {"r1", "r2"}
InitialUsers == {"u1", "u2", "u3"}
UserIds == InitialUsers \cup {"u4"}
Workflows == {"w1", "w2"}
Credentials == {"c1"}
None == "none"

GlobalOwner == [scope |-> "global", name |-> "owner"]
GlobalAdmin == [scope |-> "global", name |-> "admin"]
GlobalMember == [scope |-> "global", name |-> "member"]
WorkflowOwner == [scope |-> "workflow", name |-> "owner"]
Roles == {GlobalOwner, GlobalAdmin, GlobalMember, WorkflowOwner}
NoRole == [scope |-> None, name |-> None]

\* The values req.body.newRole takes: absent, an object lacking name or
\* scope (None stands for a missing or empty field), or a role.
Absent == [present |-> FALSE, scope |-> None, name |-> None]
Body(scope, name) == [present |-> TRUE, scope |-> scope, name |-> name]
NewRoles ==
    {Absent, Body("global", None), Body(None, "member")}
        \cup {Body(role.scope, role.name) : role \in Roles}

Link(u, x, role) == [userId |-> u, resId |-> x, role |-> role]

VARIABLES
    db,             \* the committed database
    tx,             \* the open transaction: its owner and its working copy
    activeRuntime,  \* workflows registered in the ActiveWorkflowRunner
    req,            \* per slot: the request being served and its locals
    log,            \* per slot: the calls made to the collaborators, in order
    snap,           \* per slot: how the transaction ended, db when the owned
                    \* resources were read (found), when the transaction
                    \* began (pre) and ended (post), whether the working
                    \* copy it dropped had changed (dirty)
    calls           \* number of requests accepted so far

vars == <<db, tx, activeRuntime, req, log, snap, calls>>

\* ------------------------------------------------------------ the database
OwnerLinks(table, u) == {l \in table : l.userId = u /\ l.role = "owner"}
ResIds(rows) == {l.resId : l \in rows}
LinksOn(table, u, x) == {l \in table : l.userId = u /\ l.resId = x}

\* The primary key of a link table is (userId, resId).
UniqueKeys(table) ==
    \A l1, l2 \in table :
        (l1.userId = l2.userId /\ l1.resId = l2.resId) => l1 = l2

\* The rows of the database, the roles of the users left out.
Data(d) ==
    <<d.users, d.authIdentity, d.workflows, d.active, d.credentials,
      d.sharedWorkflow, d.sharedCredentials>>

Idle ==
    [pc |-> "idle", op |-> None, user |-> None, userRole |-> NoRole,
     id |-> None, transferId |-> None, newRole |-> Absent,
     users |-> {}, sharedWorkflowIds |-> {}, sharedCredentialIds |-> {},
     ownedSharedWorkflows |-> {},
     ownedSharedCredentials |-> {}, pending |-> {},
     targetRole |-> NoRole, result |-> None]

NoTx == [owner |-> None, db |-> None]
NoSnap ==
    [state |-> None, found |-> None, pre |-> None, post |-> None,
     dirty |-> FALSE]

\* u2 owns w1 and c1, which u3 shares; w2 is shared by u1 and owned by u2,
\* or owned by u3 and shared by u2 too; w1 is active, and so is w2 when u2
\* owns it.
InitDb(ownerW2) ==
    [users |-> InitialUsers,
     globalRole |-> [u \in UserIds |->
                        IF u = "u1" THEN GlobalOwner
                        ELSE IF u = "u2" THEN GlobalAdmin
                        ELSE IF u = "u3" THEN GlobalMember ELSE NoRole],
     authIdentity |-> {"u2", "u3"},
     workflows |-> Workflows,
     active |-> IF ownerW2 = "u2" THEN Workflows ELSE {"w1"},
     credentials |-> Credentials,
     sharedWorkflow |->
        {Link("u2", "w1", "owner"), Link(ownerW2, "w2", "owner")}
            \cup {Link("u3", "w1", "shared"), Link("u1", "w2", "shared")}
            \cup (IF ownerW2 = "u3" THEN {Link("u2", "w2", "shared")} ELSE {}),
     sharedCredentials |->
        {Link("u2", "c1", "owner"), Link("u3", "c1", "shared")}]

Init ==
    /\ \E ownerW2 \in {"u2", "u3"} : db = InitDb(ownerW2)
    /\ tx = NoTx
    /\ activeRuntime = db.active
    /\ req = [r \in Reqs |-> Idle]
    /\ log = [r \in Reqs |-> <<>>]
    /\ snap = [r \in Reqs |-> NoSnap]
    /\ calls = 0

\* --------------------------------------------------------------- helpers
Set(r, fields) == req' = [req EXCEPT ![r] = fields]
Logged(r, event) == log' = [log EXCEPT ![r] = Append(@, event)]

\* The handler threw: its locals are gone, the error is the response.
Thrown(r, error) ==
    Set(r, [Idle EXCEPT
             !.op = req[r].op, !.user = req[r].user,
             !.userRole = req[r].userRole, !.id = req[r].id,
             !.transferId = req[r].transferId, !.newRole = req[r].newRole,
             !.pc = "done", !.result = error])

\* Slots are interchangeable: the second is used only while the first is busy.
CanStart(r) ==
    /\ req[r].pc = "idle"
    /\ calls < MaxCalls
    /\ r = "r1" \/ req["r1"].pc # "idle"

\* ------------------------------------------------------------- deleteUser
\* Mutant: the transferee is checked before the acting user.
PreCheckTransfereeFirst(userId, idToDelete, transferId) ==
    IF transferId = idToDelete THEN "SAME_TRANSFEREE"
    ELSE IF userId = idToDelete THEN "SELF_DELETE"
    ELSE None

\* Mutant: the transferee is not compared with the target.
PreCheckNoTransferee(userId, idToDelete, transferId) ==
    IF userId = idToDelete THEN "SELF_DELETE" ELSE None

\* Lines 175-189: the two checks made before anything is looked up.
PreCheck(userId, idToDelete, transferId) ==
    IF userId = idToDelete THEN "SELF_DELETE"
    ELSE IF transferId = idToDelete THEN "SAME_TRANSFEREE"
    ELSE None

\* @Authorized(['global', 'owner']): req.user is the global owner.
DeleteUserCall(r) ==
    /\ CanStart(r)
    /\ \E user \in db.users, idToDelete \in UserIds,
          transferId \in UserIds \cup {None} :
        /\ db.globalRole[user] = GlobalOwner
        /\ LET failure == PreCheck(user, idToDelete, transferId) IN
           Set(r, [Idle EXCEPT
                    !.op = "deleteUser", !.user = user,
                    !.userRole = db.globalRole[user],
                    !.id = idToDelete, !.transferId = transferId,
                    !.pc = IF failure = None THEN "findMany" ELSE "done",
                    !.result = failure])
    /\ calls' = calls + 1
    /\ UNCHANGED <<db, tx, activeRuntime, log, snap>>

\* Mutant: only an empty result is rejected.
UsersMissingOnlyEmpty(users, transferId) == users = {}

\* Line 196: the lookup is rejected.
UsersMissing(users, transferId) ==
    users = {} \/ (transferId # None /\ Cardinality(users) # 2)

\* Lines 191-202: one lookup of both ids in the committed database.
FindMany(r) ==
    /\ req[r].pc = "findMany"
    /\ LET users == {req[r].transferId, req[r].id} \cap db.users IN
       Set(r, [req[r] EXCEPT
                !.users = users,
                !.pc = IF UsersMissing(users, req[r].transferId) THEN "done"
                       ELSE IF req[r].transferId # None THEN "A_begin"
                       ELSE "B_find",
                !.result = IF UsersMissing(users, req[r].transferId)
                           THEN "USERS_NOT_FOUND" ELSE None])
    /\ UNCHANGED <<db, tx, activeRuntime, log, snap, calls>>

\* --------------------------------------------------------- the transaction
\* The positions at which the callback is about to run a statement.
StatementPcs ==
    {"A_findWorkflows", "A_deleteWorkflowLinks", "A_updateWorkflowLinks",
     "A_findCredentials", "A_deleteCredentialLinks", "A_updateCredentialLinks",
     "A_deleteAuthIdentity", "A_deleteUser",
     "B_removeWorkflows", "B_removeCredentials",
     "B_deleteAuthIdentity", "B_deleteUser", "commit"}

\* The positions inside the callback.
TxPcs == StatementPcs \cup {"B_deactivate"}

InTx(r, pc) == req[r].pc = pc /\ tx.owner = r

\* Lines 224 and 299: transaction(...) opens a transaction.  Transactions are
\* serialised by the store.
Begin(r) ==
    /\ req[r].pc \in {"A_begin", "B_begin"}
    /\ tx.owner = None
    /\ tx' = [owner |-> r, db |-> db]
    /\ snap' = [snap EXCEPT ![r] = [@ EXCEPT !.state = "open", !.pre = db]]
    /\ LET pending == {w.id : w \in
                        {x \in req[r].ownedSharedWorkflows : x.active}}
       IN  Set(r, [req[r] EXCEPT
                    !.pc = IF @ = "A_begin" THEN "A_findWorkflows"
                           ELSE IF pending # {} THEN "B_deactivate"
                           ELSE "B_removeWorkflows",
                    !.pending = pending])
    /\ UNCHANGED <<db, activeRuntime, log, calls>>

\* Mutant: the error reaches the caller, the statements already run stay.
RollbackKeepsChanges(r) ==
    /\ db' = tx.db
    /\ tx' = NoTx
    /\ snap' = [snap EXCEPT ![r].state = "rolledBack", ![r].post = db',
                            ![r].dirty = (Data(tx.db) # Data(snap[r].pre))]
    /\ Thrown(r, "TX_FAILED")

\* The callback threw: the transaction is rolled back and the error reaches
\* the caller.
Rollback(r) ==
    /\ db' = db
    /\ tx' = NoTx
    /\ snap' = [snap EXCEPT ![r].state = "rolledBack", ![r].post = db',
                            ![r].dirty = (Data(tx.db) # Data(snap[r].pre))]
    /\ Thrown(r, "TX_FAILED")

\* Any statement of the transaction may fail (the store is unavailable).
StatementFails(r) ==
    /\ req[r].pc \in StatementPcs
    /\ tx.owner = r
    /\ Rollback(r)
    /\ UNCHANGED <<activeRuntime, log, calls>>

\* Lines 277 and 314: the callback returned, the transaction commits.
Commit(r) ==
    /\ InTx(r, "commit")
    /\ db' = tx.db
    /\ tx' = NoTx
    /\ snap' = [snap EXCEPT ![r].state = "committed", ![r].post = tx.db]
    /\ Set(r, [req[r] EXCEPT !.pc = "hooks"])
    /\ UNCHANGED <<activeRuntime, log, calls>>

\* A statement of the transaction: it changes the working copy only.
Statement(r, next, newDb, fields) ==
    /\ tx' = [tx EXCEPT !.db = newDb]
    /\ Set(r, [fields EXCEPT !.pc = next])
    /\ UNCHANGED <<db, activeRuntime, log, snap, calls>>

\* ------------------------------------------------- path A: transfer
\* Mutant: the transferee's links on the target's resources are not cleared.
DeleteLinksNone(table, u, ids) == table

\* delete(table, {user: u, id: In(ids)})
DeleteLinks(table, u, ids) ==
    {l \in table : ~(l.userId = u /\ l.resId \in ids)}

\* update(table, {user: from, role: owner}, {user: to}): the rows matching
\* the predicate, whatever their resource id.
Repointed(table, from, to) ==
    (table \ OwnerLinks(table, from))
        \cup {Link(to, l.resId, "owner") : l \in OwnerLinks(table, from)}

\* The store rejects the update: the new owner already has a row on one of
\* the resources (primary key), or is no user any more (foreign key).
UpdateRejected(users, table, from, to) ==
    \E l \in OwnerLinks(table, from) :
        \/ LinksOn(table \ OwnerLinks(table, from), to, l.resId) # {}
        \/ to \notin users

\* delete(AuthIdentity, {userId})
DeleteAuthIdentity(d, u) == [d EXCEPT !.authIdentity = @ \ {u}]

\* Mutant: the user row goes, the links that reference it stay.
DeleteUserKeepsLinks(d, u) ==
    [d EXCEPT !.users = @ \ {u}, !.globalRole[u] = NoRole]

\* delete(User, {id}); the store removes the user's remaining links.
DeleteUser(d, u) ==
    [d EXCEPT !.users = @ \ {u},
              !.globalRole[u] = NoRole,
              !.sharedWorkflow = {l \in @ : l.userId # u},
              !.sharedCredentials = {l \in @ : l.userId # u}]

\* Mutant: the owner links are re-pointed first.
A_FindWorkflowsUpdateFirst(r) ==
    /\ InTx(r, "A_findWorkflows")
    /\ Statement(r, "A_updateWorkflowLinks", tx.db,
            [req[r] EXCEPT !.sharedWorkflowIds =
                ResIds(OwnerLinks(tx.db.sharedWorkflow, req[r].id))])

\* Lines 226-232
A_FindWorkflows(r) ==
    /\ InTx(r, "A_findWorkflows")
    /\ Statement(r, "A_deleteWorkflowLinks", tx.db,
            [req[r] EXCEPT !.sharedWorkflowIds =
                ResIds(OwnerLinks(tx.db.sharedWorkflow, req[r].id))])

\* Lines 236-239
A_DeleteWorkflowLinks(r) ==
    /\ InTx(r, "A_deleteWorkflowLinks")
    /\ Statement(r, "A_updateWorkflowLinks",
            [tx.db EXCEPT !.sharedWorkflow =
                DeleteLinks(@, req[r].transferId, req[r].sharedWorkflowIds)],
            req[r])

\* Lines 242-246
A_UpdateWorkflowLinks(r) ==
    /\ InTx(r, "A_updateWorkflowLinks")
    /\ IF UpdateRejected(tx.db.users, tx.db.sharedWorkflow,
                         req[r].id, req[r].transferId)
       THEN Rollback(r) /\ UNCHANGED <<activeRuntime, log, calls>>
       ELSE Statement(r, "A_findCredentials",
                [tx.db EXCEPT !.sharedWorkflow =
                    Repointed(@, req[r].id, req[r].transferId)],
                req[r])

\* Lines 251-257
A_FindCredentials(r) ==
    /\ InTx(r, "A_findCredentials")
    /\ Statement(r, "A_deleteCredentialLinks", tx.db,
            [req[r] EXCEPT !.sharedCredentialIds =
                ResIds(OwnerLinks(tx.db.sharedCredentials, req[r].id))])

\* Lines 261-264
A_DeleteCredentialLinks(r) ==
    /\ InTx(r, "A_deleteCredentialLinks")
    /\ Statement(r, "A_updateCredentialLinks",
            [tx.db EXCEPT !.sharedCredentials =
                DeleteLinks(@, req[r].transferId, req[r].sharedCredentialIds)],
            req[r])

\* Lines 267-271
A_UpdateCredentialLinks(r) ==
    /\ InTx(r, "A_updateCredentialLinks")
    /\ IF UpdateRejected(tx.db.users, tx.db.sharedCredentials,
                         req[r].id, req[r].transferId)
       THEN Rollback(r) /\ UNCHANGED <<activeRuntime, log, calls>>
       ELSE Statement(r, "A_deleteAuthIdentity",
                [tx.db EXCEPT !.sharedCredentials =
                    Repointed(@, req[r].id, req[r].transferId)],
                req[r])

\* Line 273
A_DeleteAuthIdentity(r) ==
    /\ InTx(r, "A_deleteAuthIdentity")
    /\ Statement(r, "A_deleteUser", DeleteAuthIdentity(tx.db, req[r].id), req[r])

\* Line 276
A_DeleteUser(r) ==
    /\ InTx(r, "A_deleteUser")
    /\ Statement(r, "commit", DeleteUser(tx.db, req[r].id), req[r])

\* ------------------------------------------- path B: cascade delete
\* Lines 288-297: the owned workflows (with their entity) and credentials,
\* read from the committed database before the transaction.
B_Find(r) ==
    /\ req[r].pc = "B_find"
    /\ Set(r, [req[r] EXCEPT
                !.ownedSharedWorkflows =
                    {[id |-> l.resId, active |-> l.resId \in db.active] :
                        l \in OwnerLinks(db.sharedWorkflow, req[r].id)},
                !.ownedSharedCredentials =
                    ResIds(OwnerLinks(db.sharedCredentials, req[r].id)),
                !.pc = "B_begin"])
    /\ snap' = [snap EXCEPT ![r].found = db]
    /\ UNCHANGED <<db, tx, activeRuntime, log, calls>>

\* Line 304: activeWorkflowRunner.remove(workflow.id) completes for one of
\* the active workflows.
B_Deactivate(r) ==
    /\ InTx(r, "B_deactivate")
    /\ \E w \in req[r].pending :
        /\ activeRuntime' = activeRuntime \ {w}
        /\ Logged(r, <<"deactivate", w>>)
        /\ Set(r, [req[r] EXCEPT
                    !.pending = @ \ {w},
                    !.pc = IF req[r].pending = {w} THEN "B_removeWorkflows"
                           ELSE "B_deactivate"])
    /\ UNCHANGED <<db, tx, snap, calls>>

\* Mutant: the rejection is swallowed and the callback goes on to line 309.
B_DeactivateFailsIgnored(r) ==
    /\ InTx(r, "B_deactivate")
    /\ \E w \in req[r].pending :
        /\ activeRuntime' = activeRuntime
        /\ Logged(r, <<"deactivateFailed", w>>)
    /\ Set(r, [req[r] EXCEPT !.pending = {}, !.pc = "B_removeWorkflows"])
    /\ UNCHANGED <<db, tx, snap, calls>>

\* Line 304 throws for one workflow: Promise.all rejects and the transaction
\* is rolled back; the calls already started for the other workflows may
\* still complete.
B_DeactivateFails(r) ==
    /\ InTx(r, "B_deactivate")
    /\ \E w \in req[r].pending, others \in SUBSET req[r].pending :
        /\ w \notin others
        /\ activeRuntime' = activeRuntime \ others
        /\ Logged(r, <<"deactivateFailed", w>>)
    /\ Rollback(r)
    /\ UNCHANGED calls

\* remove(entities): the rows with these ids, and the links on them.
RemoveWorkflows(d, ids) ==
    [d EXCEPT !.workflows = @ \ ids,
              !.active = @ \ ids,
              !.sharedWorkflow = {l \in @ : l.resId \notin ids}]

RemoveCredentials(d, ids) ==
    [d EXCEPT !.credentials = @ \ ids,
              !.sharedCredentials = {l \in @ : l.resId \notin ids}]

\* Mutant: the deactivations are started and not awaited.
AllDeactivatedNotAwaited(r) == req[r].pc \in {"B_deactivate", "B_removeWorkflows"}

\* The callback may go on to line 309: Promise.all has resolved.
AllDeactivated(r) == req[r].pc = "B_removeWorkflows"

\* Line 309
B_RemoveWorkflows(r) ==
    /\ tx.owner = r
    /\ AllDeactivated(r)
    /\ tx' = [tx EXCEPT !.db =
                RemoveWorkflows(@, {w.id : w \in req[r].ownedSharedWorkflows})]
    /\ Logged(r, <<"remove", "workflows">>)
    /\ Set(r, [req[r] EXCEPT !.pc = "B_removeCredentials"])
    /\ UNCHANGED <<db, activeRuntime, snap, calls>>

\* Line 310
B_RemoveCredentials(r) ==
    /\ InTx(r, "B_removeCredentials")
    /\ Statement(r, "B_deleteAuthIdentity",
            RemoveCredentials(tx.db, req[r].ownedSharedCredentials), req[r])

\* Line 312
B_DeleteAuthIdentity(r) ==
    /\ InTx(r, "B_deleteAuthIdentity")
    /\ Statement(r, "B_deleteUser", DeleteAuthIdentity(tx.db, req[r].id), req[r])

\* Line 313
B_DeleteUser(r) ==
    /\ InTx(r, "B_deleteUser")
    /\ Statement(r, "commit", DeleteUser(tx.db, req[r].id), req[r])

\* ------------------------------------------------ after the transaction
\* Lines 279-283 (and 316-320): the telemetry event is started and not
\* awaited, so that its outcome never reaches the handler.
Hooks(r) ==
    /\ req[r].pc = "hooks"
    /\ Logged(r, <<"onUserDeletion", req[r].id>>)
    /\ Set(r, [req[r] EXCEPT !.pc = "toPublic"])
    /\ UNCHANGED <<db, tx, activeRuntime, snap, calls>>

\* What deleteUser returns when an awaited collaborator call has ended.
Awaited(rejected) == IF rejected THEN "HOOK_FAILED" ELSE "SUCCESS"

\* Lines 284-285 (and 322-323): the public user is built and the external
\* hook run, both awaited; either may reject.
ExternalHooks(r) ==
    /\ req[r].pc = "toPublic"
    /\ \E toPublicRejects \in BOOLEAN, runRejects \in BOOLEAN :
        /\ Logged(r, IF toPublicRejects THEN <<"toPublicFailed", req[r].id>>
                     ELSE <<"user.deleted", req[r].id>>)
        /\ Set(r, [req[r] EXCEPT
                    !.pc = "done",
                    !.result = Awaited(toPublicRejects \/ runRejects)])
    /\ UNCHANGED <<db, tx, activeRuntime, snap, calls>>

\* The response has been sent: the slot is free again.
Return(r) ==
    /\ req[r].pc = "done"
    /\ req' = [req EXCEPT ![r] = Idle]
    /\ log' = [log EXCEPT ![r] = <<>>]
    /\ snap' = [snap EXCEPT ![r] = NoSnap]
    /\ UNCHANGED <<db, tx, activeRuntime, calls>>

\* ------------------------------------------------------------- changeRole
\* Mutant: the guard against promoting to global owner is missing.
BodyCheckNoOwnerGuard(userRole, newRole) ==
    IF userRole.scope = "global" /\ userRole.name = "member" THEN "NO_MEMBER"
    ELSE IF ~newRole.present THEN "MISSING_NEW_ROLE_KEY"
    ELSE IF newRole.name = None \/ newRole.scope = None
         THEN "MISSING_NEW_ROLE_VALUE"
    ELSE None

\* Mutant: the body is validated before the acting user's role.
BodyCheckKeyFirst(userRole, newRole) ==
    IF ~newRole.present THEN "MISSING_NEW_ROLE_KEY"
    ELSE IF userRole.scope = "global" /\ userRole.name = "member" THEN "NO_MEMBER"
    ELSE IF newRole.name = None \/ newRole.scope = None
         THEN "MISSING_NEW_ROLE_VALUE"
    ELSE IF newRole.scope = "global" /\ newRole.name = "owner"
         THEN "NO_USER_TO_OWNER"
    ELSE None

\* Lines 341-357: the guards that need no lookup.
BodyCheck(userRole, newRole) ==
    IF userRole.scope = "global" /\ userRole.name = "member" THEN "NO_MEMBER"
    ELSE IF ~newRole.present THEN "MISSING_NEW_ROLE_KEY"
    ELSE IF newRole.name = None \/ newRole.scope = None
         THEN "MISSING_NEW_ROLE_VALUE"
    ELSE IF newRole.scope = "global" /\ newRole.name = "owner"
         THEN "NO_USER_TO_OWNER"
    ELSE None

\* @Authorized('any'): req.user is any user of the instance.
ChangeRoleCall(r) ==
    /\ CanStart(r)
    /\ \E user \in db.users, id \in UserIds, newRole \in NewRoles :
        LET failure == BodyCheck(db.globalRole[user], newRole) IN
        Set(r, [Idle EXCEPT
                 !.op = "changeRole", !.user = user,
                 !.userRole = db.globalRole[user],
                 !.id = id, !.newRole = newRole,
                 !.pc = IF failure = None THEN "findOne" ELSE "done",
                 !.result = failure])
    /\ calls' = calls + 1
    /\ UNCHANGED <<db, tx, activeRuntime, log, snap>>

\* Lines 363-383: the guards on the target user.
TargetCheck(userRole, found, targetRole) ==
    IF ~found THEN "NO_USER"
    ELSE IF /\ userRole.scope = "global" /\ userRole.name = "admin"
            /\ targetRole.scope = "global" /\ targetRole.name = "owner"
         THEN "NO_ADMIN_ON_OWNER"
    ELSE IF /\ userRole.scope = "global" /\ userRole.name = "owner"
            /\ targetRole.scope = "global" /\ targetRole.name = "owner"
         THEN "NO_OWNER_ON_OWNER"
    ELSE None

\* Lines 359-383
FindOne(r) ==
    /\ req[r].pc = "findOne"
    /\ LET found == req[r].id \in db.users
           failure == TargetCheck(req[r].userRole, found,
                                  db.globalRole[req[r].id])
       IN  Set(r, [req[r] EXCEPT
                    !.users = IF found THEN {req[r].id} ELSE {},
                    !.targetRole = db.globalRole[req[r].id],
                    !.pc = IF failure = None THEN "update" ELSE "done",
                    !.result = failure])
    /\ UNCHANGED <<db, tx, activeRuntime, log, snap, calls>>

\* Line 385: roleService.findCached(scope, name)
findCached(scope, name) == [scope |-> scope, name |-> name]

\* Mutant: the update has no where clause.
UpdateRoleEveryRow(d, id, role) ==
    [d EXCEPT !.globalRole = [u \in UserIds |-> IF u \in d.users THEN role ELSE @[u]]]

\* update(id, {globalRole}): the row with this id, when there is one.
UpdateRole(d, id, role) ==
    IF id \in d.users THEN [d EXCEPT !.globalRole[id] = role] ELSE d

\* Lines 385-389.  The update is a statement of its own; it waits while an
\* open transaction has deleted the row.
Update(r) ==
    /\ req[r].pc = "update"
    /\ tx.owner # None => (req[r].id \in db.users <=> req[r].id \in tx.db.users)
    /\ LET roleToSet == findCached(req[r].newRole.scope, req[r].newRole.name)
       IN  /\ db' = UpdateRole(db, req[r].id, roleToSet)
           /\ tx' = IF tx.owner = None THEN tx
                    ELSE [tx EXCEPT !.db = UpdateRole(@, req[r].id, roleToSet)]
    /\ Set(r, [req[r] EXCEPT !.pc = "done", !.result = "SUCCESS"])
    /\ UNCHANGED <<activeRuntime, log, snap, calls>>

\* ------------------------------------------------------ the specification
Next ==
    \E r \in Reqs :
        \/ DeleteUserCall(r)
        \/ FindMany(r)
        \/ Begin(r)
        \/ StatementFails(r)
        \/ Commit(r)
        \/ A_FindWorkflows(r)
        \/ A_DeleteWorkflowLinks(r)
        \/ A_UpdateWorkflowLinks(r)
        \/ A_FindCredentials(r)
        \/ A_DeleteCredentialLinks(r)
        \/ A_UpdateCredentialLinks(r)
        \/ A_DeleteAuthIdentity(r)
        \/ A_DeleteUser(r)
        \/ B_Find(r)
        \/ B_Deactivate(r)
        \/ B_DeactivateFails(r)
        \/ B_RemoveWorkflows(r)
        \/ B_RemoveCredentials(r)
        \/ B_DeleteAuthIdentity(r)
        \/ B_DeleteUser(r)
        \/ Hooks(r)
        \/ ExternalHooks(r)
        \/ Return(r)
        \/ ChangeRoleCall(r)
        \/ FindOne(r)
        \/ Update(r)

Spec == Init /\ [][Next]_vars

\* ------------------------------------ a store that does not serialise
\* The callback of lines 224-277 run to its end on d: what a transfer of u's
\* resources to t commits.
Transferred(d, u, t) ==
    LET sharedWorkflowIds == ResIds(OwnerLinks(d.sharedWorkflow, u))
        sharedCredentialIds == ResIds(OwnerLinks(d.sharedCredentials, u))
        repointed ==
            [d EXCEPT
                !.sharedWorkflow =
                    Repointed(DeleteLinks(@, t, sharedWorkflowIds), u, t),
                !.sharedCredentials =
                    Repointed(DeleteLinks(@, t, sharedCredentialIds), u, t)]
    IN  DeleteUser(DeleteAuthIdentity(repointed, u), u)

\* The code asks for no isolation level, so that the store's default
\* applies; under READ COMMITTED transactions run side by side and each
\* statement sees what has been committed.  Here the transfer of r runs and
\* commits while another transaction is open that has written nothing yet
\* (it holds no row lock); the open transaction sees the committed rows.
A_CommitBeside(r) ==
    /\ req[r].pc = "A_begin"
    /\ tx.owner # None /\ tx.db = db
    /\ req[r].transferId \in db.users
    /\ LET committed == Transferred(db, req[r].id, req[r].transferId) IN
        /\ db' = committed
        /\ tx' = [tx EXCEPT !.db = committed]
        /\ snap' = [snap EXCEPT ![r] = [@ EXCEPT !.state = "committed",
                                                 !.pre = db, !.post = committed]]
    /\ Set(r, [req[r] EXCEPT
                !.sharedWorkflowIds =
                    ResIds(OwnerLinks(db.sharedWorkflow, req[r].id)),
                !.sharedCredentialIds =
                    ResIds(OwnerLinks(db.sharedCredentials, req[r].id)),
                !.pc = "hooks"])
    /\ UNCHANGED <<activeRuntime, log, calls>>

NextReadCommitted ==
    \/ Next
    \/ \E r \in Reqs : A_CommitBeside(r)

SpecReadCommitted == Init /\ [][NextReadCommitted]_vars

TypeOK ==
    /\ db.users \subseteq UserIds
    /\ tx.owner \in Reqs \cup {None}
    /\ calls \in 0..MaxCalls

\* ================================================================ claims
IsDelete(r) == req[r].op = "deleteUser"
IsTransfer(r) == IsDelete(r) /\ req[r].transferId # None
IsCascade(r) == IsDelete(r) /\ req[r].transferId = None
Committed(r) == snap[r].state = "committed"
Owned(table, u) == ResIds(OwnerLinks(table, u))
AllLinks(d) == d.sharedWorkflow \cup d.sharedCredentials

\* C1: when a deletion with a transferee has committed, the transferee holds
\* the owner link, and no other link, on every workflow and credential the
\* target owned when the transaction began; the target is no user any more
\* and no link or authentication identity references it.
C1_TransferPostcondition ==
    \A r \in Reqs :
        (IsTransfer(r) /\ Committed(r)) =>
            LET pre == snap[r].pre
                post == snap[r].post
                u == req[r].id
                t == req[r].transferId
            IN  /\ \A w \in Owned(pre.sharedWorkflow, u) :
                        LinksOn(post.sharedWorkflow, t, w) = {Link(t, w, "owner")}
                /\ \A c \in Owned(pre.sharedCredentials, u) :
                        LinksOn(post.sharedCredentials, t, c) = {Link(t, c, "owner")}
                /\ u \notin post.users
                /\ \A l \in AllLinks(post) : l.userId # u
                /\ u \notin post.authIdentity

\* A transfer has succeeded whose transferee shared one of the target's
\* workflows, and the target shared something itself.
C1_Witness ==
    \E r \in Reqs :
        /\ IsTransfer(r) /\ Committed(r) /\ req[r].result = "SUCCESS"
        /\ \E w \in Owned(snap[r].pre.sharedWorkflow, req[r].id) :
                Link(req[r].transferId, w, "shared") \in snap[r].pre.sharedWorkflow
        /\ \E l \in AllLinks(snap[r].pre) :
                l.userId = req[r].id /\ l.role = "shared"

\* C2: two deletions of the same target never both succeed.
C2_NeverTwoSuccesses ==
    \A r1, r2 \in Reqs :
        (/\ r1 # r2
         /\ IsDelete(r1) /\ IsDelete(r2)
         /\ req[r1].id = req[r2].id
         /\ req[r1].pc = "done" /\ req[r2].pc = "done")
            => ~(req[r1].result = "SUCCESS" /\ req[r2].result = "SUCCESS")

GlobalOwners(d) == {u \in d.users : d.globalRole[u] = GlobalOwner}
AsksForOwner(r) ==
    /\ req[r].op = "changeRole"
    /\ req[r].newRole = Body("global", "owner")

\* C3: at most one user holds (global, owner), and a changeRole asking for
\* (global, owner) ends at a guard: it never reaches the lookup or the update.
C3_AtMostOneGlobalOwner ==
    /\ Cardinality(GlobalOwners(db)) <= 1
    /\ \A r \in Reqs :
        AsksForOwner(r) =>
            /\ req[r].pc = "done"
            /\ req[r].result \in {"NO_MEMBER", "NO_USER_TO_OWNER"}

\* An admin has asked to make an existing member the global owner, after
\* another role change went through.
C3_Witness ==
    \E r \in Reqs :
        /\ AsksForOwner(r)
        /\ req[r].userRole = GlobalAdmin
        /\ req[r].id \in db.users
        /\ req[r].result = "NO_USER_TO_OWNER"
        /\ Cardinality(GlobalOwners(db)) = 1
        /\ \E u \in db.users : db.globalRole[u] = WorkflowOwner

\* The guards of changeRole in the order of the table, for an acting role, a
\* body and what a lookup of the target gives.
Guards(userRole, newRole, found, targetRole) ==
    <<userRole = GlobalMember,
      ~newRole.present,
      newRole.name = None \/ newRole.scope = None,
      newRole.scope = "global" /\ newRole.name = "owner",
      ~found,
      userRole = GlobalAdmin /\ targetRole = GlobalOwner,
      userRole = GlobalOwner /\ targetRole = GlobalOwner>>

\* The first guard that fails; 0 when none does.
FirstFailing(g) ==
    IF \E i \in DOMAIN g : g[i]
    THEN CHOOSE i \in DOMAIN g : g[i] /\ \A j \in DOMAIN g : g[j] => i <= j
    ELSE 0

GuardKinds ==
    <<"InsufficientPrivilege", "MissingField", "MalformedField",
      "InsufficientPrivilege", "UserNotFound", "InsufficientPrivilege",
      "InsufficientPrivilege">>

ChangeRoleErrors ==
    <<"NO_MEMBER", "MISSING_NEW_ROLE_KEY", "MISSING_NEW_ROLE_VALUE",
      "NO_USER_TO_OWNER", "NO_USER", "NO_ADMIN_ON_OWNER", "NO_OWNER_ON_OWNER">>

\* The error class thrown with each message, as a failure kind.
FailureKind(result) ==
    IF result \in {"NO_MEMBER", "NO_USER_TO_OWNER", "NO_ADMIN_ON_OWNER",
                   "NO_OWNER_ON_OWNER"} THEN "InsufficientPrivilege"
    ELSE IF result = "NO_USER" THEN "UserNotFound"
    ELSE IF result = "MISSING_NEW_ROLE_KEY" THEN "MissingField"
    ELSE IF result = "MISSING_NEW_ROLE_VALUE" THEN "MalformedField"
    ELSE None

\* What the request found out about its target: the outcome of the lookup
\* when it made one, anything otherwise.
TargetViews(r) ==
    IF req[r].result \in {"NO_USER", "NO_ADMIN_ON_OWNER", "NO_OWNER_ON_OWNER",
                          "SUCCESS"}
    THEN {<<req[r].users # {}, req[r].targetRole>>}
    ELSE BOOLEAN \X (Roles \cup {NoRole})

\* C4: a finished changeRole returns the failure of the first failing guard
\* of the table, and success exactly when no guard fails.
C4_FirstFailingGuardWins ==
    \A r \in Reqs :
        (req[r].op = "changeRole" /\ req[r].pc = "done") =>
            \A view \in TargetViews(r) :
                LET first == FirstFailing(Guards(req[r].userRole, req[r].newRole,
                                                 view[1], view[2]))
                IN  IF first = 0
                    THEN req[r].result = "SUCCESS"
                    ELSE /\ req[r].result = ChangeRoleErrors[first]
                         /\ FailureKind(req[r].result) = GuardKinds[first]

\* A member sent no newRole and was refused as a member, while the owner
\* made an admin a member.
C4_Witness ==
    \E r1, r2 \in Reqs :
        /\ req[r1].op = "changeRole" /\ req[r1].userRole = GlobalMember
        /\ req[r1].newRole = Absent /\ req[r1].result = "NO_MEMBER"
        /\ req[r2].op = "changeRole" /\ req[r2].userRole = GlobalOwner
        /\ req[r2].targetRole = GlobalAdmin
        /\ req[r2].newRole = Body("global", "member")
        /\ req[r2].result = "SUCCESS"

Gone(d, u) ==
    /\ u \notin d.users
    /\ u \notin d.authIdentity
    /\ \A l \in AllLinks(d) : l.userId # u

\* A step changed the rows of the committed database: it is the commit of a
\* whole deletion.
WholeDeletion ==
    Data(db') # Data(db) =>
        \E r \in Reqs :
            /\ InTx(r, "commit") /\ req'[r].pc = "hooks"
            /\ db' = tx.db
            /\ Gone(db', req[r].id)
            /\ IsTransfer(r) =>
                /\ \A w \in req[r].sharedWorkflowIds :
                        Link(req[r].transferId, w, "owner") \in db'.sharedWorkflow
                /\ \A c \in req[r].sharedCredentialIds :
                        Link(req[r].transferId, c, "owner") \in db'.sharedCredentials
            /\ IsCascade(r) =>
                /\ \A w \in req[r].ownedSharedWorkflows : w.id \notin db'.workflows
                /\ req[r].ownedSharedCredentials \cap db'.credentials = {}

\* C5: when a deletion fails inside its transaction the rows of the database
\* are those of before the transaction, and the rows only ever change by the
\* commit of a whole deletion.
C5_AllOrNothing ==
    /\ [](\A r \in Reqs :
            snap[r].state = "rolledBack" => Data(snap[r].post) = Data(snap[r].pre))
    /\ [][WholeDeletion]_vars

\* A transaction was rolled back after its statements had changed rows.
C5_Witness ==
    \E r \in Reqs :
        /\ snap[r].state = "rolledBack"
        /\ req[r].result = "TX_FAILED"
        /\ snap[r].dirty

\* C6: a deletion that has committed returns success.
C6_SuccessOnceCommitted ==
    \A r \in Reqs :
        (IsDelete(r) /\ Committed(r) /\ req[r].pc = "done") =>
            req[r].result = "SUCCESS"

Events(r, event) == {i \in DOMAIN log[r] : log[r][i] = event}

\* C7: when a cascade deletion has succeeded, each workflow the target owned
\* when the handler read them has had exactly one deactivate call if it was
\* active and none otherwise, every such call came before the removal, and
\* the owned workflows and credentials, the target's authentication
\* identities and the target are gone.
C7_CascadePostcondition ==
    \A r \in Reqs :
        (IsCascade(r) /\ req[r].result = "SUCCESS") =>
            LET seen == snap[r].found
                post == snap[r].post
                u == req[r].id
            IN  /\ \A w \in Owned(seen.sharedWorkflow, u) :
                    /\ Cardinality(Events(r, <<"deactivate", w>>))
                            = IF w \in seen.active THEN 1 ELSE 0
                    /\ \A i \in Events(r, <<"deactivate", w>>),
                          j \in Events(r, <<"remove", "workflows">>) : i < j
                    /\ w \notin post.workflows
                /\ Events(r, <<"remove", "workflows">>) # {}
                /\ Owned(seen.sharedCredentials, u) \cap post.credentials = {}
                /\ Gone(post, u)

\* A cascade deletion has succeeded for a target that owned an active and an
\* inactive workflow and a credential.
C7_Witness ==
    \E r \in Reqs :
        /\ IsCascade(r) /\ req[r].result = "SUCCESS"
        /\ \E w1, w2 \in Owned(snap[r].found.sharedWorkflow, req[r].id) :
                /\ w1 \in snap[r].found.active /\ w2 \notin snap[r].found.active
                /\ Events(r, <<"deactivate", w1>>) # {}
        /\ Owned(snap[r].found.sharedCredentials, req[r].id) # {}

Untouched == UNCHANGED <<db, tx, activeRuntime, log, snap>>

IsSelfDelete(rq) == rq.op = "deleteUser" /\ rq.user = rq.id

\* C8: a deletion of the acting user ends with SelfDeletionForbidden without
\* a lookup, whatever the transferee, and the step that decides it changes
\* neither the database nor the runtime nor the hooks' log.
C8_SelfDeletionForbidden ==
    /\ [](\A r \in Reqs :
            IsSelfDelete(req[r]) =>
                /\ req[r].pc = "done" /\ req[r].result = "SELF_DELETE"
                /\ req[r].users = {}
                /\ log[r] = <<>> /\ snap[r] = NoSnap)
    /\ [][\A r \in Reqs :
            (req'[r] # req[r] /\ IsSelfDelete(req'[r])) => Untouched]_vars

\* The owner asked to delete itself, naming itself as the transferee.
C8_Witness ==
    \E r \in Reqs :
        /\ IsSelfDelete(req[r])
        /\ req[r].transferId = req[r].id
        /\ req[r].result = "SELF_DELETE"

IsSameTransferee(rq) ==
    rq.op = "deleteUser" /\ rq.user # rq.id /\ rq.transferId = rq.id

\* C9: a deletion whose transferee is the target, the target not being the
\* acting user, ends with InvalidTransferee and changes nothing.
C9_InvalidTransferee ==
    /\ [](\A r \in Reqs :
            IsSameTransferee(req[r]) =>
                /\ req[r].pc = "done" /\ req[r].result = "SAME_TRANSFEREE"
                /\ req[r].users = {}
                /\ log[r] = <<>> /\ snap[r] = NoSnap)
    /\ [][\A r \in Reqs :
            (req'[r] # req[r] /\ IsSameTransferee(req'[r])) => Untouched]_vars

\* The owner asked to delete an existing user with that user as transferee.
C9_Witness ==
    \E r \in Reqs :
        /\ IsSameTransferee(req[r])
        /\ req[r].id \in db.users
        /\ req[r].result = "SAME_TRANSFEREE"

\* The target is no user, or a transferee is given and is no user.
NotResolved(d, idToDelete, transferId) ==
    \/ idToDelete \notin d.users
    \/ transferId # None /\ transferId \notin d.users

\* The lookup step of a deletion.
LookupDecides(r) ==
    (req[r].pc = "findMany" /\ req'[r].pc # "findMany") =>
        IF NotResolved(db, req[r].id, req[r].transferId)
        THEN /\ req'[r].pc = "done" /\ req'[r].result = "USERS_NOT_FOUND"
             /\ Untouched
        ELSE /\ req'[r].pc = (IF req[r].transferId = None THEN "B_find"
                              ELSE "A_begin")
             /\ req'[r].result = None

\* C10: the lookup ends the deletion with UserNotFound, nothing changed,
\* exactly when the target, or the transferee that was given, is no user; a
\* deletion that ended so has called no collaborator and opened no
\* transaction.
C10_UserNotFound ==
    /\ [](\A r \in Reqs :
            (IsDelete(r) /\ req[r].result = "USERS_NOT_FOUND") =>
                /\ req[r].pc = "done"
                /\ log[r] = <<>> /\ snap[r] = NoSnap)
    /\ [][\A r \in Reqs : LookupDecides(r)]_vars

\* Two deletions ended with UserNotFound: one found the target and not the
\* transferee, the other the transferee and not the target.
C10_Witness ==
    \E r1, r2 \in Reqs :
        /\ req[r1].result = "USERS_NOT_FOUND" /\ req[r2].result = "USERS_NOT_FOUND"
        /\ req[r1].transferId # None /\ req[r1].users = {req[r1].id}
        /\ req[r2].transferId # None /\ req[r2].users = {req[r2].transferId}

DeactivateFailed(r) ==
    \E i \in DOMAIN log[r] : log[r][i][1] = "deactivateFailed"

HookEvents(r) ==
    {i \in DOMAIN log[r] :
        log[r][i][1] \in {"onUserDeletion", "user.deleted", "toPublicFailed"}}

\* C11: when a deactivation has failed in a cascade deletion, the deletion
\* has failed and its transaction was rolled back: the rows of the database
\* are those of before the transaction, so that the target, the workflows
\* and credentials it owned, its owner links and its authentication
\* identities are all still there, and no hook or telemetry call was made.
C11_DeactivateFailureCommitsNothing ==
    \A r \in Reqs :
        DeactivateFailed(r) =>
            LET pre == snap[r].pre
                post == snap[r].post
                u == req[r].id
            IN  /\ IsCascade(r)
                /\ req[r].pc = "done" /\ req[r].result = "TX_FAILED"
                /\ snap[r].state = "rolledBack"
                /\ Data(post) = Data(pre)
                /\ u \in pre.users => u \in post.users
                /\ Owned(pre.sharedWorkflow, u) \subseteq post.workflows
                /\ Owned(pre.sharedCredentials, u) \subseteq post.credentials
                /\ OwnerLinks(AllLinks(pre), u) \subseteq AllLinks(post)
                /\ u \in pre.authIdentity => u \in post.authIdentity
                /\ HookEvents(r) = {}

\* The deactivation of one of two active workflows of the target failed
\* after the other had been deactivated; the target and both workflows are
\* in the database.
C11_Witness ==
    \E r \in Reqs :
        /\ DeactivateFailed(r)
        /\ \E i \in DOMAIN log[r] : log[r][i][1] = "deactivate"
        /\ req[r].result = "TX_FAILED"
        /\ req[r].id \in db.users
        /\ Cardinality(Owned(db.sharedWorkflow, req[r].id)) = 2
        /\ req[r].id \in db.authIdentity

\* The update statement the transfer r is about to run would be rejected.
NextUpdateRejected(r) ==
    \/ /\ InTx(r, "A_updateWorkflowLinks")
       /\ UpdateRejected(tx.db.users, tx.db.sharedWorkflow,
                         req[r].id, req[r].transferId)
    \/ /\ InTx(r, "A_updateCredentialLinks")
       /\ UpdateRejected(tx.db.users, tx.db.sharedCredentials,
                         req[r].id, req[r].transferId)

\* Two transfers of different targets to one transferee are being served,
\* and the lookup of each has found its target and the transferee.
SameTransferee(r1, r2) ==
    /\ r1 # r2
    /\ IsTransfer(r1) /\ IsTransfer(r2)
    /\ \A r \in {r1, r2} : req[r].users = {req[r].id, req[r].transferId}
    /\ req[r1].id # req[r2].id
    /\ req[r1].transferId = req[r2].transferId

\* Both have committed, b right after a, and no deletion has committed since.
CommittedInTurn(a, b) ==
    /\ Committed(a) /\ Committed(b)
    /\ Data(snap[b].pre) = Data(snap[a].post)
    /\ Data(db) = Data(snap[b].post)

\* C12: while two transfers of different targets to the same transferee are
\* served together, the store rejects no update of either and no link table
\* holds two rows with one key, so that each transfer commits unless the
\* store or a hook fails; when both have committed, one after the other,
\* the transferee holds the owner link, and no other, on every workflow and
\* credential that either target owned when its transaction began.
C12_TransfersToOneTransferee ==
    \A r1, r2 \in Reqs :
        SameTransferee(r1, r2) =>
            /\ ~NextUpdateRejected(r1)
            /\ UniqueKeys(db.sharedWorkflow) /\ UniqueKeys(db.sharedCredentials)
            /\ tx.owner # None =>
                    /\ UniqueKeys(tx.db.sharedWorkflow)
                    /\ UniqueKeys(tx.db.sharedCredentials)
            /\ CommittedInTurn(r1, r2) =>
                    LET t == req[r1].transferId IN
                    \A r \in {r1, r2} :
                        /\ \A w \in Owned(snap[r].pre.sharedWorkflow, req[r].id) :
                                LinksOn(db.sharedWorkflow, t, w)
                                    = {Link(t, w, "owner")}
                        /\ \A c \in Owned(snap[r].pre.sharedCredentials, req[r].id) :
                                LinksOn(db.sharedCredentials, t, c)
                                    = {Link(t, c, "owner")}

\* Two transfers to one transferee, served together, have both succeeded;
\* each target owned a workflow and the transferee shared one of them.
C12_Witness ==
    \E r1, r2 \in Reqs :
        /\ SameTransferee(r1, r2)
        /\ req[r1].result = "SUCCESS" /\ req[r2].result = "SUCCESS"
        /\ CommittedInTurn(r1, r2)
        /\ Owned(snap[r1].pre.sharedWorkflow, req[r1].id) # {}
        /\ \E w \in Owned(snap[r2].pre.sharedWorkflow, req[r2].id) :
                Link(req[r2].transferId, w, "shared") \in snap[r2].pre.sharedWorkflow

\* C13: the user who holds (global, owner) keeps that role whatever
\* changeRole calls are made, so that there is always a global owner.
C13_OwnerRoleNeverChanged ==
    /\ \A u \in InitialUsers :
            InitDb("u2").globalRole[u] = GlobalOwner =>
                u \in db.users /\ db.globalRole[u] = GlobalOwner
    /\ GlobalOwners(db) # {}

\* The transferee holds no row on a resource whose owner row is the target's.
Cleared(table, u, t) == \A x \in Owned(table, u) : LinksOn(table, t, x) = {}

\* C14: in every state of a transfer's transaction no link table of the
\* working copy holds two rows with the same (userId, resId), and when the
\* owner links of a kind are about to be re-pointed the transferee's rows on
\* the target's resources of that kind have already been deleted.
C14_ClearedBeforeRepointed ==
    \A r \in Reqs :
        (IsTransfer(r) /\ tx.owner = r) =>
            /\ UniqueKeys(tx.db.sharedWorkflow)
            /\ UniqueKeys(tx.db.sharedCredentials)
            /\ req[r].pc = "A_updateWorkflowLinks" =>
                    Cleared(tx.db.sharedWorkflow, req[r].id, req[r].transferId)
            /\ req[r].pc = "A_updateCredentialLinks" =>
                    Cleared(tx.db.sharedCredentials, req[r].id, req[r].transferId)

\* The owner link of a workflow that the transferee shared when the
\* transaction began has been re-pointed in the working copy.
C14_Witness ==
    \E r \in Reqs :
        /\ IsTransfer(r) /\ InTx(r, "A_findCredentials")
        /\ \E w \in req[r].sharedWorkflowIds :
            /\ Link(req[r].transferId, w, "shared") \in snap[r].pre.sharedWorkflow
            /\ LinksOn(tx.db.sharedWorkflow, req[r].transferId, w)
                    = {Link(req[r].transferId, w, "owner")}

\* C15: when a transfer is about to re-point the owner links of a kind, the
\* rows the update matches are those of the ids read at the start of the
\* transaction, and the transferee holds no row on any of them, also on a
\* store whose transactions run side by side.
C15_RepointsIdentifiedIdsOnly ==
    \A r \in Reqs :
        /\ (IsTransfer(r) /\ InTx(r, "A_updateWorkflowLinks")) =>
                /\ Owned(tx.db.sharedWorkflow, req[r].id) = req[r].sharedWorkflowIds
                /\ Cleared(tx.db.sharedWorkflow, req[r].id, req[r].transferId)
        /\ (IsTransfer(r) /\ InTx(r, "A_updateCredentialLinks")) =>
                /\ Owned(tx.db.sharedCredentials, req[r].id)
                        = req[r].sharedCredentialIds
                /\ Cleared(tx.db.sharedCredentials, req[r].id, req[r].transferId)

\* C16: when a cascade deletion has succeeded, no workflow it removed is
\* still registered in the runtime, and no workflow that the target owned
\* when the transaction began is left in the database, whatever other
\* requests did between the read of the owned workflows and the removal.
C16_CascadeCoversLateWorkflows ==
    \A r \in Reqs :
        (IsCascade(r) /\ req[r].result = "SUCCESS") =>
            LET pre == snap[r].pre
                post == snap[r].post
            IN  /\ (pre.workflows \ post.workflows) \cap activeRuntime = {}
                /\ Owned(pre.sharedWorkflow, req[r].id) \cap post.workflows = {}

\* What a role update of id may change in the database d, now e: the role of
\* the user id, which is the role asked for, and nothing else.
OnlyRoleOf(d, e, id, role) ==
    /\ Data(e) = Data(d)
    /\ \A u \in e.users :
            e.globalRole[u] = IF u = id THEN role ELSE d.globalRole[u]

\* The step of a changeRole that succeeds.
RoleSet(r) ==
    LET role == [scope |-> req[r].newRole.scope, name |-> req[r].newRole.name]
    IN  /\ OnlyRoleOf(db, db', req[r].id, role)
        /\ tx'.owner = tx.owner
        /\ tx.owner # None => OnlyRoleOf(tx.db, tx'.db, req[r].id, role)
        /\ UNCHANGED <<activeRuntime, log, snap>>

\* C17: the step by which a changeRole succeeds gives the target the role
\* named by newRole and changes no other user's role, no link, no workflow,
\* no credential and nothing outside the database; every other step of a
\* changeRole, the one that ends it with a failure included, changes nothing.
C17_ChangeRoleFrame ==
    [][\A r \in Reqs :
        (req'[r].op = "changeRole" /\ req'[r] # req[r]) =>
            IF req'[r].result = "SUCCESS" THEN RoleSet(r) ELSE Untouched]_vars

\* A changeRole has succeeded and its target, that held another role, holds
\* the role asked for, while the roles of the other users are those of the
\* initial state.
C17_Witness ==
    \E r \in Reqs :
        /\ req[r].op = "changeRole" /\ req[r].result = "SUCCESS"
        /\ req[r].id \in db.users
        /\ req[r].targetRole # db.globalRole[req[r].id]
        /\ db.globalRole[req[r].id]
                = [scope |-> req[r].newRole.scope, name |-> req[r].newRole.name]
        /\ \A u \in db.users \ {req[r].id} :
                db.globalRole[u] = InitDb("u2").globalRole[u]

OwnersOf(table, x) == {l \in table : l.resId = x /\ l.role = "owner"}

\* C18: whenever the deletions being served have all succeeded, every link
\* of the committed database references a user of the store, and every
\* workflow and every credential has exactly one owner link, however the
\* deletions interleaved.
C18_LinksAndOwnersConsistent ==
    (\A r \in Reqs : IsDelete(r) => req[r].result = "SUCCESS") =>
        /\ \A l \in AllLinks(db) : l.userId \in db.users
        /\ \A w \in db.workflows :
                Cardinality(OwnersOf(db.sharedWorkflow, w)) = 1
        /\ \A c \in db.credentials :
                Cardinality(OwnersOf(db.sharedCredentials, c)) = 1

\* What a deletion of u, with transferee t, may change in a link table whose
\* resources kept are those of the set kept: the links of the other users on
\* these resources are the same before and after, and so are, when owned is
\* given, the transferee's links on the resources not in owned.
LinksKept(before, after, kept, u, t) ==
    /\ \A l \in before :
            (l.userId \notin {u, t} /\ l.resId \in kept) => l \in after
    /\ \A l \in after : l.userId \notin {u, t} => l \in before

TransfereeLinksKept(before, after, u, t) ==
    /\ \A l \in before :
            (l.userId = t /\ l.resId \notin Owned(before, u)) => l \in after
    /\ \A l \in after :
            (l.userId = t /\ l.resId \notin Owned(before, u)) => l \in before

\* C19: a deletion that has committed removed no workflow and no credential
\* whose owner link was another user's when the transaction began, and
\* changed no link that a user other than the target and the transferee
\* holds on a resource that is still there; a transfer removed no workflow
\* and no credential, called deactivate for none, and left the transferee's
\* links on the resources the target did not own as they were.
C19_DeleteUserFrame ==
    \A r \in Reqs :
        (IsDelete(r) /\ Committed(r)) =>
            LET pre == snap[r].pre
                post == snap[r].post
                u == req[r].id
                t == req[r].transferId
            IN  /\ \A w \in pre.workflows \ post.workflows :
                        \A l \in OwnersOf(pre.sharedWorkflow, w) : l.userId = u
                /\ \A c \in pre.credentials \ post.credentials :
                        \A l \in OwnersOf(pre.sharedCredentials, c) : l.userId = u
                /\ LinksKept(pre.sharedWorkflow, post.sharedWorkflow,
                             post.workflows, u, t)
                /\ LinksKept(pre.sharedCredentials, post.sharedCredentials,
                             post.credentials, u, t)
                /\ IsTransfer(r) =>
                    /\ post.workflows = pre.workflows
                    /\ post.credentials = pre.credentials
                    /\ \A i \in DOMAIN log[r] : log[r][i][1] # "deactivate"
                    /\ TransfereeLinksKept(pre.sharedWorkflow,
                                           post.sharedWorkflow, u, t)
                    /\ TransfereeLinksKept(pre.sharedCredentials,
                                           post.sharedCredentials, u, t)

====
